---- MODULE Spec2Model ----
(***************************************************************************)
(* AlchemyProvider (packages/alchemy/src/provider.ts): construction,       *)
(* gasEstimator, simulateUserOperationExecution and withAlchemyGasManager. *)
(* Every await of the source is a point where other operations of the     *)
(* provider may run; the code between two awaits is one atomic action.     *)
(***************************************************************************)
EXTENDS Integers, Sequences, FiniteSets, TLC

VARIABLES
    status,        \* "unconstructed" | "constructed" | "ctorError"
    cfg,           \* the AlchemyProviderConfig handed to the constructor
    factoryCalls,  \* invocations of createAlchemyEnhanced4337Client
    base,          \* SmartAccountProvider part: rpcClient, chain, initialized
    feeEstimator,  \* what withAlchemyGasFeeEstimator installed
    pvgBuffer,     \* private pvgBuffer
    feeOptsSet,    \* private feeOptsSet
    client,        \* private client
    account,       \* this.account
    gasManager,    \* what withAlchemyGasManager (middleware) attached
    gm,            \* last withAlchemyGasManager call of the provider
    sim,           \* the simulateUserOperationExecution invocation
    est            \* the gasEstimator invocation

vars == <<status, cfg, factoryCalls, base, feeEstimator, pvgBuffer, feeOptsSet,
          client, account, gasManager, gm, sim, est>>

privateFields == <<pvgBuffer, feeOptsSet, client>>

----------------------------------------------------------------------------
(* Bounds of the explored inputs *)

\* pre-verification-gas buffer overrides explored: 0 .. MaxBuffer
MaxBuffer == 6
\* remote pre-verification-gas estimates explored: 0 .. MaxEstimate
MaxEstimate == 21

----------------------------------------------------------------------------
(* Chains *)

arbitrum == 42161
arbitrumGoerli == 421613
optimism == 10
optimismGoerli == 420
sepolia == 11155111

\* numeric ids that SupportedChains does not hold
UnsupportedChainIds == {31337}

NoChain == [defined |-> FALSE, id |-> 0, hasAlchemy |-> FALSE, http |-> ""]

AlchemyChain(i, url) ==
    [defined |-> TRUE, id |-> i, hasAlchemy |-> TRUE, http |-> url]

\* the chain table of chains.ts: every entry carries rpcUrls.alchemy
SupportedChainTable ==
    { AlchemyChain(arbitrum, "https://arb-mainnet.g.alchemy.com/v2"),
      AlchemyChain(arbitrumGoerli, "https://arb-goerli.g.alchemy.com/v2"),
      AlchemyChain(optimism, "https://opt-mainnet.g.alchemy.com/v2"),
      AlchemyChain(optimismGoerli, "https://opt-goerli.g.alchemy.com/v2"),
      AlchemyChain(sepolia, "https://eth-sepolia.g.alchemy.com/v2") }

SupportedChainIds == { c.id : c \in SupportedChainTable }

\* SupportedChains.get(id): the entry, or undefined
SupportedChains(i) ==
    IF i \in SupportedChainIds
    THEN CHOOSE c \in SupportedChainTable : c.id = i
    ELSE NoChain

\* chain objects a caller may pass instead of a numeric id
ChainObjects ==
    { AlchemyChain(sepolia, "https://eth-sepolia.g.alchemy.com/v2"),
      AlchemyChain(optimismGoerli, "https://opt-goerli.g.alchemy.com/v2"),
      AlchemyChain(31337, "https://rpc.example/"),
      AlchemyChain(31337, "https://rpc.example"),
      [defined |-> TRUE, id |-> 31337, hasAlchemy |-> FALSE, http |-> ""] }

ChainById(i) == [isNumber |-> TRUE, id |-> i, obj |-> NoChain]
ChainByObject(c) == [isNumber |-> FALSE, id |-> c.id, obj |-> c]

ChainInputs ==
    { ChainById(i) : i \in SupportedChainIds \cup UnsupportedChainIds }
        \cup { ChainByObject(c) : c \in ChainObjects }

----------------------------------------------------------------------------
(* Configuration inputs *)

\* an optional bigint: absent, or a value
None == [has |-> FALSE, val |-> 0]
Some(v) == [has |-> TRUE, val |-> v]
\* an optional string: absent, or a value
NoStr == [has |-> FALSE, val |-> ""]
Str(s) == [has |-> TRUE, val |-> s]

NoFeeOpts ==
    [present |-> FALSE, baseFeeBufferPercent |-> None,
     maxPriorityFeeBufferPercent |-> None,
     preVerificationGasBufferPercent |-> None]

FeeOpts(b, p, g) ==
    [present |-> TRUE, baseFeeBufferPercent |-> b,
     maxPriorityFeeBufferPercent |-> p,
     preVerificationGasBufferPercent |-> g]

PvgOverrides == {None} \cup { Some(v) : v \in 0..MaxBuffer }

FeeOptsInputs ==
    {NoFeeOpts}
        \cup { FeeOpts(b, p, g) : b \in {None, Some(0)}, p \in {None, Some(0)},
                                  g \in PvgOverrides }

\* ConnectionConfig: the four shapes of the union type
ConnectionInputs ==
    { [rpcUrl |-> NoStr, apiKey |-> Str("K"), jwt |-> NoStr],
      [rpcUrl |-> NoStr, apiKey |-> NoStr, jwt |-> Str("J")],
      [rpcUrl |-> Str("https://node.example/rpc"), apiKey |-> NoStr, jwt |-> NoStr],
      [rpcUrl |-> Str("https://node.example/rpc"), apiKey |-> NoStr, jwt |-> Str("J")] }

EntryPointAddress == "0xEntryPoint"

Config(ch, f, cn) ==
    [chain |-> ch, entryPointAddress |-> EntryPointAddress, feeOpts |-> f,
     connection |-> cn]

Configs ==
    { Config(ch, f, cn) : ch \in ChainInputs, f \in FeeOptsInputs,
                          cn \in ConnectionInputs }

\* configurations used when the operations of the provider are explored
LifecycleConfigs ==
    { Config(ch, f, cn) :
        ch \in { ChainById(arbitrum), ChainById(sepolia), ChainById(31337),
                 ChainByObject([defined |-> TRUE, id |-> 31337,
                                hasAlchemy |-> FALSE, http |-> ""]) },
        f \in {NoFeeOpts} \cup { FeeOpts(None, None, g) : g \in PvgOverrides },
        cn \in { [rpcUrl |-> NoStr, apiKey |-> Str("K"), jwt |-> NoStr] } }

NoConfig == Config(ChainById(0), NoFeeOpts,
                   [rpcUrl |-> NoStr, apiKey |-> NoStr, jwt |-> NoStr])

----------------------------------------------------------------------------
(* Constructor *)

DefaultBaseFeeBufferPercent == 50
DefaultMaxPriorityFeeBufferPercent == 5
DefaultL2PvgBuffer == 5
DefaultPvgBuffer == 0

Unset == 0 - 1

NoClient == [created |-> FALSE, chainId |-> 0, rpcUrl |-> "",
             authorization |-> NoStr]
NoBase == [initialized |-> FALSE, chain |-> NoChain, rpcClient |-> NoClient,
           entryPointAddress |-> ""]
NoFeeEstimator == [installed |-> FALSE, baseFeeBufferPercent |-> 0,
                   maxPriorityFeeBufferPercent |-> 0]

\* typeof chain === "number" ? SupportedChains.get(chain) : chain
ResolveChain(ch) == IF ch.isNumber THEN SupportedChains(ch.id) ELSE ch.obj

\* variant: the endpoint of the chain is not looked at
ChainNotSupportedNoEndpointCheck(c) == ~c.defined

\* !_chain || !_chain.rpcUrls["alchemy"]
ChainNotSupported(c) == ~c.defined \/ ~c.hasAlchemy

\* connectionConfig.apiKey ?? ""
OrEmpty(s) == IF s.has THEN s.val ELSE ""

\* v ?? d on an optional bigint
OrDefault(v, d) == IF v.has THEN v.val ELSE d

\* variant: an explicit rpcUrl is ignored
ResolveRpcUrlAlwaysDerived(c, cn) == c.http \o "/" \o OrEmpty(cn.apiKey)

ResolveRpcUrl(c, cn) ==
    IF ~cn.rpcUrl.has
    THEN c.http \o "/" \o OrEmpty(cn.apiKey)
    ELSE cn.rpcUrl.val

\* the fetchOptions spread: present only when a jwt is given
ResolveAuthorization(cn) ==
    IF cn.jwt.has THEN Str("Bearer " \o cn.jwt.val) ELSE NoStr

createAlchemyEnhanced4337Client(c, cn) ==
    [created |-> TRUE, chainId |-> c.id, rpcUrl |-> ResolveRpcUrl(c, cn),
     authorization |-> ResolveAuthorization(cn)]

\* a bigint used as a condition: 0n is falsy, an absent value is falsy
Truthy(v) == v.has /\ v.val # 0

PvgBufferChains == {arbitrum, arbitrumGoerli, optimism, optimismGoerli}

\* variant: no chain-specific default
ResolvePvgBufferNoChainDefault(f, chainId) ==
    IF Truthy(f.preVerificationGasBufferPercent)
    THEN f.preVerificationGasBufferPercent.val
    ELSE DefaultPvgBuffer

ResolvePvgBuffer(f, chainId) ==
    IF Truthy(f.preVerificationGasBufferPercent)
    THEN f.preVerificationGasBufferPercent.val
    ELSE IF chainId \in PvgBufferChains
         THEN DefaultL2PvgBuffer
         ELSE DefaultPvgBuffer

NoAccount == "none"
Accounts == {"acct1", "acct2"}

NoGasManager == [attached |-> FALSE, estimateGas |-> FALSE]
NoGmCall == [tick |-> FALSE, outcome |-> "none", failedBefore |-> FALSE]

Construct(c) ==
    /\ status = "unconstructed"
    /\ cfg' = c
    /\ LET _chain == ResolveChain(c.chain) IN
       IF ChainNotSupported(_chain)
       THEN /\ status' = "ctorError"
            /\ UNCHANGED <<factoryCalls, base, feeEstimator, pvgBuffer,
                           feeOptsSet, client>>
       ELSE LET made == createAlchemyEnhanced4337Client(_chain, c.connection) IN
            /\ factoryCalls' = factoryCalls + 1
            /\ base' = [initialized |-> TRUE, chain |-> _chain,
                        rpcClient |-> made,
                        entryPointAddress |-> c.entryPointAddress]
            /\ feeEstimator' =
                 [installed |-> TRUE,
                  baseFeeBufferPercent |->
                      OrDefault(c.feeOpts.baseFeeBufferPercent,
                                DefaultBaseFeeBufferPercent),
                  maxPriorityFeeBufferPercent |->
                      OrDefault(c.feeOpts.maxPriorityFeeBufferPercent,
                                DefaultMaxPriorityFeeBufferPercent)]
            /\ pvgBuffer' = ResolvePvgBuffer(c.feeOpts, _chain.id)
            /\ feeOptsSet' = c.feeOpts.present
            /\ client' = made
            /\ status' = "constructed"
    /\ UNCHANGED <<account, gasManager, gm, sim, est>>

----------------------------------------------------------------------------
(* SmartAccountProvider.connect / isConnected *)

Connect(a) ==
    /\ status = "constructed"
    /\ account' = a
    /\ UNCHANGED <<status, cfg, factoryCalls, base, feeEstimator, pvgBuffer,
                   feeOptsSet, client, gasManager, gm, sim, est>>

isConnected == account # NoAccount

----------------------------------------------------------------------------
(* gasEstimator *)

Hundred == 100

\* bigint division: truncates toward zero
BigIntDiv(a, b) ==
    LET q == (IF a < 0 THEN 0 - a ELSE a) \div (IF b < 0 THEN 0 - b ELSE b)
    IN IF (a < 0) = (b < 0) THEN q ELSE 0 - q

\* variant: the division is done before the multiplication
BufferedDivideFirst(e, buffer) == BigIntDiv(e, Hundred) * (Hundred + buffer)

\* (BigInt(estimates.preVerificationGas) * (100n + this.pvgBuffer)) / 100n
BufferedPreVerificationGas(e, buffer) ==
    BigIntDiv(e * (Hundred + buffer), Hundred)

IdleEst == [pc |-> "idle", calls |-> 0, estimate |-> 0,
            preVerificationGas |-> 0, outcome |-> "none"]

\* gasEstimator(struct) is entered and awaits resolveProperties(struct)
EstimatorCall ==
    /\ status = "constructed"
    /\ est.pc \in {"idle", "done"}
    /\ est' = [IdleEst EXCEPT !.pc = "resolving"]
    /\ UNCHANGED <<status, cfg, factoryCalls, base, feeEstimator, pvgBuffer,
                   feeOptsSet, client, account, gasManager, gm, sim>>

\* deepHexlify, then rpcClient.estimateUserOperationGas is awaited
EstimatorRequest ==
    /\ est.pc = "resolving"
    /\ est' = [est EXCEPT !.pc = "estimating", !.calls = @ + 1]
    /\ UNCHANGED <<status, cfg, factoryCalls, base, feeEstimator, pvgBuffer,
                   feeOptsSet, client, account, gasManager, gm, sim>>

\* the remote estimate arrives: the buffer is applied and the struct returned
EstimateResolves(e) ==
    /\ est.pc = "estimating"
    /\ est' = [est EXCEPT !.pc = "done", !.estimate = e,
                          !.preVerificationGas =
                              BufferedPreVerificationGas(e, pvgBuffer),
                          !.outcome = "ok"]
    /\ UNCHANGED <<status, cfg, factoryCalls, base, feeEstimator, pvgBuffer,
                   feeOptsSet, client, account, gasManager, gm, sim>>

\* the remote estimate fails: the error propagates
EstimateRejects ==
    /\ est.pc = "estimating"
    /\ est' = [est EXCEPT !.pc = "done", !.outcome = "RemoteError"]
    /\ UNCHANGED <<status, cfg, factoryCalls, base, feeEstimator, pvgBuffer,
                   feeOptsSet, client, account, gasManager, gm, sim>>

----------------------------------------------------------------------------
(* User operations *)

Fields == {"sender", "nonce", "initCode", "callData", "callGasLimit",
           "verificationGasLimit", "preVerificationGas", "maxFeePerGas",
           "maxPriorityFeePerGas", "paymasterAndData", "signature"}

\* a field is absent, holds a raw value (bigint, number, bytes) or a hex string
NoStruct == [f \in Fields |-> "absent"]
FullStruct == [f \in Fields |-> "raw"]

\* what buildUserOperation may hand back: every field set, or one left out
BuiltStructs == {FullStruct} \cup { [FullStruct EXCEPT ![f] = "absent"] : f \in Fields }

\* deepHexlify: every value that is there becomes a hex string
deepHexlify(s) == [f \in Fields |-> IF s[f] = "absent" THEN "absent" ELSE "hex"]

\* isValidRequest: every property of the struct is set
isValidRequest(r) == \A f \in Fields : r[f] # "absent"

\* JSON.stringify(request, null, 2): keys without a value are left out
JSONstringify(r) == { <<f, r[f]>> : f \in { g \in Fields : r[g] # "absent" } }

NoHash == [uo |-> NoStruct, entryPoint |-> "", chainId |-> 0]

\* getUserOperationHash(request, entryPointAddress, chainId): the signature
\* field of the request is not part of the hash
getUserOperationHash(r, entryPoint, chainId) ==
    [uo |-> [r EXCEPT !["signature"] = "absent"], entryPoint |-> entryPoint,
     chainId |-> chainId]

NoSignature == [signer |-> NoAccount, hash |-> NoHash]

\* account.signMessage(hash) of account a
signMessage(a, h) == [signer |-> a, hash |-> h]

NoRequest == [uo |-> NoStruct, signature |-> NoSignature]
NoMessage == [text |-> "", uo |-> {}]

MissingParameters ==
    "Request is missing parameters. All properties on UserOperationStruct must be set. uo: "

IdleSim == [pc |-> "idle", trace |-> <<>>, uoStruct |-> NoStruct,
            request |-> NoRequest, signer |-> NoAccount, pending |-> NoHash,
            sent |-> NoRequest, simCalls |-> 0, outcome |-> "none",
            message |-> NoMessage, result |-> "none"]

----------------------------------------------------------------------------
(* simulateUserOperationExecution *)

\* the call is entered: buildUserOperation(uoCallData) is started and awaited
SimulateCall ==
    /\ status = "constructed"
    /\ sim.pc \in {"idle", "done"}
    /\ sim' = [IdleSim EXCEPT !.pc = "building", !.trace = <<"build">>]
    /\ UNCHANGED <<status, cfg, factoryCalls, base, feeEstimator, pvgBuffer,
                   feeOptsSet, client, account, gasManager, gm, est>>

\* the build pipeline fails: the error propagates
BuildRejects ==
    /\ sim.pc = "building"
    /\ sim' = [sim EXCEPT !.pc = "done", !.outcome = "RemoteError"]
    /\ UNCHANGED <<status, cfg, factoryCalls, base, feeEstimator, pvgBuffer,
                   feeOptsSet, client, account, gasManager, gm, est>>

\* variant: the account check is left out
AccountNeverMissing == FALSE

\* the account check of the continuation
AccountMissing == ~isConnected

\* variant: the completeness check is left out
RequestNeverInvalid(request) == FALSE

\* the completeness check of the continuation
RequestInvalid(request) == ~isValidRequest(request)

\* the build pipeline returns uoStruct; the code up to the next await runs:
\* account check, deepHexlify, isValidRequest, hash, account.signMessage
BuildResolves(uoStruct) ==
    /\ sim.pc = "building"
    /\ LET request == deepHexlify(uoStruct) IN
       IF AccountMissing
       THEN sim' = [sim EXCEPT !.pc = "done", !.uoStruct = uoStruct,
                               !.trace = Append(@, "accountCheck"),
                               !.outcome = "PreconditionError",
                               !.message = [text |-> "account not connected",
                                            uo |-> {}]]
       ELSE IF RequestInvalid(request)
       THEN sim' = [sim EXCEPT !.pc = "done", !.uoStruct = uoStruct,
                               !.trace = @ \o <<"accountCheck", "validate">>,
                               !.request = [uo |-> request,
                                            signature |-> NoSignature],
                               !.outcome = "ValidationError",
                               !.message = [text |-> MissingParameters,
                                            uo |-> JSONstringify(request)]]
       ELSE sim' = [sim EXCEPT !.pc = "signing", !.uoStruct = uoStruct,
                               !.trace = @ \o <<"accountCheck", "validate", "sign">>,
                               !.request = [uo |-> request,
                                            signature |-> NoSignature],
                               !.signer = account,
                               !.pending =
                                   getUserOperationHash(request,
                                                        base.entryPointAddress,
                                                        base.chain.id)]
    /\ UNCHANGED <<status, cfg, factoryCalls, base, feeEstimator, pvgBuffer,
                   feeOptsSet, client, account, gasManager, gm, est>>

\* signMessage fails: the error propagates
SignRejects ==
    /\ sim.pc = "signing"
    /\ sim' = [sim EXCEPT !.pc = "done", !.outcome = "RemoteError"]
    /\ UNCHANGED <<status, cfg, factoryCalls, base, feeEstimator, pvgBuffer,
                   feeOptsSet, client, account, gasManager, gm, est>>

\* signMessage returns: the signature is attached and the request goes to
\* client.simulateUserOperationExecution
SignResolves ==
    /\ sim.pc = "signing"
    /\ LET signed == [sim.request EXCEPT
                          !.signature = signMessage(sim.signer, sim.pending),
                          !.uo["signature"] = "hex"] IN
       sim' = [sim EXCEPT !.pc = "simulating", !.request = signed,
                          !.sent = signed, !.simCalls = @ + 1,
                          !.trace = Append(@, "simulate")]
    /\ UNCHANGED <<status, cfg, factoryCalls, base, feeEstimator, pvgBuffer,
                   feeOptsSet, client, account, gasManager, gm, est>>

\* the remote call yields a single result or an array of results
SimulateResolves(r) ==
    /\ sim.pc = "simulating"
    /\ sim' = [sim EXCEPT !.pc = "done", !.outcome = "ok", !.result = r]
    /\ UNCHANGED <<status, cfg, factoryCalls, base, feeEstimator, pvgBuffer,
                   feeOptsSet, client, account, gasManager, gm, est>>

SimulateRejects ==
    /\ sim.pc = "simulating"
    /\ sim' = [sim EXCEPT !.pc = "done", !.outcome = "RemoteError"]
    /\ UNCHANGED <<status, cfg, factoryCalls, base, feeEstimator, pvgBuffer,
                   feeOptsSet, client, account, gasManager, gm, est>>

----------------------------------------------------------------------------
(* withAlchemyGasManager *)

\* the middleware: attaches the gas manager to the provider; estimateGas tells
\* it whether to take over gas and fee estimation
AttachGasManager(estimateGas) == [attached |-> TRUE, estimateGas |-> estimateGas]

\* variant: the flag is handed over without the negation
GasManagerFlagNotNegated == feeOptsSet

\* the third argument handed to the middleware
GasManagerFlag == ~feeOptsSet

\* variant: attaching the gas manager marks the fee options as set
WithAlchemyGasManagerMarksFeeOpts ==
    /\ status = "constructed"
    /\ IF ~isConnected
       THEN /\ gm' = [tick |-> ~gm.tick, outcome |-> "PreconditionError",
                      failedBefore |-> TRUE]
            /\ UNCHANGED <<gasManager, feeOptsSet>>
       ELSE /\ gm' = [gm EXCEPT !.tick = ~@, !.outcome = "ok"]
            /\ gasManager' = AttachGasManager(GasManagerFlag)
            /\ feeOptsSet' = TRUE
    /\ UNCHANGED <<status, cfg, factoryCalls, base, feeEstimator, pvgBuffer,
                   client, account, sim, est>>

WithAlchemyGasManager ==
    /\ status = "constructed"
    /\ IF ~isConnected
       THEN /\ gm' = [tick |-> ~gm.tick, outcome |-> "PreconditionError",
                      failedBefore |-> TRUE]
            /\ UNCHANGED gasManager
       ELSE /\ gm' = [gm EXCEPT !.tick = ~@, !.outcome = "ok"]
            /\ gasManager' = AttachGasManager(GasManagerFlag)
    /\ UNCHANGED <<status, cfg, factoryCalls, base, feeEstimator, pvgBuffer,
                   feeOptsSet, client, account, sim, est>>

----------------------------------------------------------------------------
(* Specifications *)

Init ==
    /\ status = "unconstructed"
    /\ cfg = NoConfig
    /\ factoryCalls = 0
    /\ base = NoBase
    /\ feeEstimator = NoFeeEstimator
    /\ pvgBuffer = Unset
    /\ feeOptsSet = FALSE
    /\ client = NoClient
    /\ account = NoAccount
    /\ gasManager = NoGasManager
    /\ gm = NoGmCall
    /\ sim = IdleSim
    /\ est = IdleEst

Next ==
    \/ \E c \in LifecycleConfigs : Construct(c)
    \/ \E a \in Accounts : Connect(a)
    \/ EstimatorCall
    \/ EstimatorRequest
    \/ \E e \in 0..MaxEstimate : EstimateResolves(e)
    \/ EstimateRejects
    \/ SimulateCall
    \/ \E s \in BuiltStructs : BuildResolves(s)
    \/ BuildRejects
    \/ SignResolves
    \/ SignRejects
    \/ \E r \in {"single", "array"} : SimulateResolves(r)
    \/ SimulateRejects
    \/ WithAlchemyGasManager

\* the provider with its operations
Spec == Init /\ [][Next]_vars

NextConstruct == \E c \in Configs : Construct(c)

\* construction alone, over every configuration
SpecConstruct == Init /\ [][NextConstruct]_vars

----------------------------------------------------------------------------
(* Properties *)

Constructed == status = "constructed"
PvgOverride == cfg.feeOpts.preVerificationGasBufferPercent
TraceSteps == { sim.trace[i] : i \in 1..Len(sim.trace) }

\* C1: whenever a pre-verification-gas buffer override is passed in feeOpts
\* (any value from 0 up), the resolved buffer of the constructed provider is
\* the override, whatever the chain.
C1_OverrideIsResolvedBuffer ==
    (Constructed /\ PvgOverride.has) => pvgBuffer = PvgOverride.val

C3_BufferedEstimate ==
    (est.pc = "done" /\ est.outcome = "ok") =>
        /\ est.preVerificationGas = (est.estimate * (100 + pvgBuffer)) \div 100
        /\ est.preVerificationGas >= est.estimate
        /\ (pvgBuffer = 0 => est.preVerificationGas = est.estimate)

C3_Witness ==
    /\ est.pc = "done"
    /\ est.outcome = "ok"
    /\ pvgBuffer = 5
    /\ est.estimate = 19
    /\ est.preVerificationGas = 19

\* C4: a simulateUserOperationExecution call that fails with the precondition
\* error (no account connected) has made no outbound call before failing: not
\* the build pipeline, not the simulate call.
C4_NoCallBeforePreconditionError ==
    (sim.pc = "done" /\ sim.outcome = "PreconditionError") =>
        TraceSteps \cap {"build", "sign", "simulate"} = {}

\* C5: constructing with a chain id that SupportedChains does not hold, or with
\* a chain that has no alchemy endpoint, ends in the configuration error with
\* the client factory never invoked, no client, the base provider not
\* initialized, no fee middleware installed, no private field assigned and no
\* operation of the provider under way.
C5_UnsupportedChainFailsClean ==
    (/\ status # "unconstructed"
     /\ \/ (cfg.chain.isNumber /\ cfg.chain.id \notin SupportedChainIds)
        \/ (~cfg.chain.isNumber /\ ~cfg.chain.obj.hasAlchemy))
    => /\ status = "ctorError"
       /\ factoryCalls = 0
       /\ client = NoClient
       /\ base = NoBase
       /\ feeEstimator = NoFeeEstimator
       /\ pvgBuffer = Unset
       /\ est = IdleEst
       /\ sim = IdleSim
       /\ gm = NoGmCall

C5_Witness ==
    /\ status = "ctorError"
    /\ ~cfg.chain.isNumber
    /\ ~cfg.chain.obj.hasAlchemy
    /\ factoryCalls = 0

\* C6 as stated: with an API key and no explicit RPC URL the endpoint of the
\* client is the base endpoint of the chain directly followed by the API key;
\* with an explicit RPC URL it is that URL.
C6_BaseThenKey ==
    Constructed =>
        /\ cfg.connection.rpcUrl.has => client.rpcUrl = cfg.connection.rpcUrl.val
        /\ (cfg.connection.apiKey.has /\ ~cfg.connection.rpcUrl.has) =>
              client.rpcUrl = base.chain.http \o cfg.connection.apiKey.val

\* C6 amended: without an explicit RPC URL the endpoint of the client is the
\* base endpoint of the chain, then "/", then the API key (empty if absent),
\* so base https://rpc.example and key K give https://rpc.example/K; with an
\* explicit RPC URL it is that URL and the API key plays no part.
C6_BaseSlashKey ==
    Constructed =>
        /\ client.rpcUrl =
            (IF cfg.connection.rpcUrl.has
             THEN cfg.connection.rpcUrl.val
             ELSE base.chain.http \o "/"
                    \o (IF cfg.connection.apiKey.has
                        THEN cfg.connection.apiKey.val ELSE ""))
        /\ (/\ base.chain.http = "https://rpc.example"
            /\ cfg.connection.apiKey = Str("K"))
           => client.rpcUrl = "https://rpc.example/K"
        /\ client = base.rpcClient

C6_Witness ==
    /\ Constructed
    /\ base.chain.http = "https://rpc.example"
    /\ cfg.connection.apiKey = Str("K")
    /\ client.rpcUrl = "https://rpc.example/K"

\* C7: when the built user operation reaches the completeness check with a
\* field absent, the call fails with the validation error, the message holds
\* the serialized hex-encoded struct, signMessage is not invoked and the remote
\* simulate call is not made.
C7_IncompleteRequestRejected ==
    (/\ "validate" \in TraceSteps
     /\ \E f \in Fields : sim.uoStruct[f] = "absent")
    => /\ sim.pc = "done"
       /\ sim.outcome = "ValidationError"
       /\ sim.message.text = MissingParameters
       /\ sim.message.uo =
            { <<f, "hex">> : f \in { g \in Fields : sim.uoStruct[g] # "absent" } }
       /\ TraceSteps \cap {"sign", "simulate"} = {}
       /\ sim.signer = NoAccount
       /\ sim.simCalls = 0
       /\ sim.sent = NoRequest

C7_Witness ==
    /\ sim.outcome = "ValidationError"
    /\ sim.uoStruct["nonce"] = "absent"
    /\ <<"sender", "hex">> \in sim.message.uo
    /\ sim.simCalls = 0

\* C8: a withAlchemyGasManager call on a provider without an account fails
\* with the precondition error, attaches nothing and changes no field of the
\* provider; a call with an account connected succeeds, also after an earlier
\* failed call, and hands the middleware the negation of "fee options were
\* supplied at construction".
C8_GasManagerNeedsAccount ==
    [][gm'.tick # gm.tick =>
        IF account = NoAccount
        THEN /\ gm'.outcome = "PreconditionError"
             /\ UNCHANGED <<status, cfg, factoryCalls, base, feeEstimator,
                            pvgBuffer, feeOptsSet, client, account, gasManager>>
        ELSE /\ gm'.outcome = "ok"
             /\ gasManager'.attached
             /\ gasManager'.estimateGas = ~cfg.feeOpts.present]_vars

C8_Witness ==
    /\ gm.outcome = "ok"
    /\ gm.failedBefore
    /\ gasManager.attached
    /\ cfg.feeOpts.present
    /\ ~gasManager.estimateGas

SimulateOrder == <<"build", "accountCheck", "validate", "sign", "simulate">>

\* C9: the steps of a simulateUserOperationExecution call are a prefix of
\* build, account check, completeness check, sign, simulate; the remote
\* simulate call is made at most once, only with a request whose fields are all
\* set and whose signature is the one of the account connected when signing,
\* over the hash of (request, entry point, chain id); a call that failed
\* earlier has made no remote simulate call.
C9_SimulateOrder ==
    /\ [](/\ Len(sim.trace) <= Len(SimulateOrder)
          /\ sim.trace = SubSeq(SimulateOrder, 1, Len(sim.trace))
          /\ sim.simCalls <= 1
          /\ (sim.simCalls = 1) = ("simulate" \in TraceSteps)
          /\ (sim.simCalls = 0) = (sim.sent = NoRequest)
          /\ sim.simCalls = 1 =>
                /\ \A f \in Fields : sim.sent.uo[f] = "hex"
                /\ \A f \in Fields \ {"signature"} : sim.uoStruct[f] # "absent"
                /\ sim.sent.signature.signer \in Accounts
                /\ sim.sent.signature.hash =
                     [uo |-> [f \in Fields |->
                                IF f = "signature" THEN "absent" ELSE "hex"],
                      entryPoint |-> cfg.entryPointAddress,
                      chainId |-> cfg.chain.id])
    /\ [][(sim'.pc = "signing" /\ sim.pc # "signing") =>
            (account # NoAccount /\ sim'.signer = account)]_vars

C9_Witness ==
    /\ sim.pc = "done"
    /\ sim.outcome = "ok"
    /\ sim.simCalls = 1
    /\ sim.trace = SimulateOrder
    /\ sim.sent.signature.signer = "acct1"
    /\ account = "acct2"

\* C10: once the provider is constructed no step of gasEstimator,
\* simulateUserOperationExecution or withAlchemyGasManager, failing or not and
\* however interleaved, changes pvgBuffer, feeOptsSet or client.
C10_PrivateFieldsFrozen ==
    [][Constructed => UNCHANGED privateFields]_vars

C10_Witness ==
    /\ Constructed
    /\ est.pc = "estimating"
    /\ sim.pc = "signing"
    /\ gasManager.attached
    /\ gm.failedBefore
    /\ pvgBuffer = 5

====
